---- MODULE Spec2Model ----
(***************************************************************************)
(* Model of mdocekal/mag: the MAG reader (mag/mag.py) with its row         *)
(* decoding, file-handle cache, offset index, group search and the         *)
(* full-record generator, the exact-match binary search (mag/utils.py),    *)
(* the threshold option of the `full` command (mag/__main__.py) and the    *)
(* random-access reader JsonlDataset (mag/dataset.py).                     *)
(***************************************************************************)
EXTENDS Integers, Sequences, FiniteSets, TLC

VARIABLES
    files,                  \* path -> sequence of lines; a line is its tab-separated cells
    threshold,              \* field_of_study_score_threshold (tenths)
    opened,                 \* MAG._opened_files: path -> handle position (lines consumed)
    pc,                     \* position of the running operation
    status,                 \* "idle" | "running" | "done" | "raised"
    paper_authors,          \* gen_full_records locals (dicts)
    paper_references,
    fields_of_study,
    papers_fields_of_study,
    journals,
    out,                    \* records the consumer has received in this run
    run,                    \* number of the current run of gen_full_records (1 or 2)
    fresh,                  \* TRUE when the handle cache was empty at the start of this run
    released,               \* TRUE when __exit__ has run since the last run ended
    first,                  \* outcome <<status, out>> of the first run, once it has ended
    index,                  \* outcome of make_index on the child file
    query,                  \* arguments of the last search_field_for_paper
    found,                  \* its outcome
    s, x, pos,              \* bin_search: its arguments and its outcome
    call,                   \* how gen_full_records was called: entry point and threshold given
    missing,                \* the paths at which no file can be opened
    row_in, row_schema,     \* convert_row: its arguments
    row_out,                \* its result
    jsonl,                  \* JsonlDataset: the lines of the .jsonl file
    file,                   \* JsonlDataset.file: None, or the position of the open handle
    _id_2_line_offsets,     \* JsonlDataset._id_2_line_offsets
    op,                     \* the last operation called on the dataset
    got,                    \* the outcome of the last dataset[mag_id]
    handles,                \* every file object open() has returned: its path, closed or not
    fileobj                 \* path -> the file object MAG._opened_files holds for it

vars == <<files, threshold, opened, pc, status, paper_authors, paper_references,
          fields_of_study, papers_fields_of_study, journals, out, run, fresh, released, first,
          index, query, found, s, x, pos, call, missing, row_in, row_schema, row_out,
          jsonl, file, _id_2_line_offsets, op, got, handles, fileobj>>

genVars == <<paper_authors, paper_references, fields_of_study,
             papers_fields_of_study, journals>>
idxVars == <<index, query, found>>
binVars == <<s, x, pos>>
rowVars == <<row_in, row_schema, row_out>>
dsVars == <<jsonl, file, _id_2_line_offsets, op, got>>
poolVars == <<handles, fileobj>>
extVars == <<call, missing, rowVars, dsVars, poolVars>>

\* Bounds of the model.
MaxEdits == 2       \* lines of the input that depart from the reference input
MaxRuns == 2        \* runs of gen_full_records on one MAG object
MaxRerunEdits == 1  \* the same, for the inputs that are read twice
MaxIdxLines == 3    \* lines of the file that make_index scans
MaxLen == 3         \* length of the sequence bin_search searches
MaxVal == 3         \* its values are 0..MaxVal
MaxId == 4          \* the paper ids searched for are 0..MaxId
MaxCells == 4       \* cells of the line convert_row decodes
MaxMissing == 1     \* input files that are absent
MaxDsLines == 3     \* lines of the .jsonl file of a JsonlDataset

-----------------------------------------------------------------------------
(* Python values: None, int, str, float (floats are kept in tenths).       *)

None == [t |-> "None"]
IntV(n) == [t |-> "int", v |-> n]
StrV(c) == [t |-> "str", v |-> c]
FloatV(n) == [t |-> "float", v |-> n]
ListV(l) == [t |-> "list", v |-> l]
Raised(e) == [t |-> "raise", v |-> e]   \* the call ended with exception e
Unset == [t |-> "unset"]                \* no call has been made yet

\* Python truthiness of a value: None, 0, 0.0 and "" are false.
Truthy(val) ==
    CASE val.t = "None" -> FALSE
      [] val.t = "int" -> val.v # 0
      [] val.t = "float" -> val.v # 0
      [] val.t = "str" -> val.v # ""

\* The cells that int() and float() accept, with their values.
IntOf == ("0" :> 0) @@ ("1" :> 1) @@ ("2" :> 2) @@ ("3" :> 3) @@ ("7" :> 7)
         @@ ("8" :> 8) @@ ("9" :> 9) @@ ("10" :> 10) @@ ("2020" :> 2020)
FloatOf == ("0.0" :> 0) @@ ("0.5" :> 5) @@ ("0" :> 0) @@ ("1" :> 10)

\* Number of bytes of a cell.
CellLen(c) ==
    CASE c = "" -> 0
      [] c \in {"10"} -> 2
      [] c \in {"0.0", "0.5"} -> 3
      [] c = "2020" -> 4
      [] OTHER -> 1

\* c_type(row[i]) of convert_row; a ValueError gives None.
ParseCell(type, c) ==
    CASE type = "int" -> IF c \in DOMAIN IntOf THEN IntV(IntOf[c]) ELSE None
      [] type = "float" -> IF c \in DOMAIN FloatOf THEN FloatV(FloatOf[c]) ELSE None
      [] type = "str" -> StrV(c)

-----------------------------------------------------------------------------
(* Schemas.                                                                *)

PAPERS_SCHEMA == <<
    <<"PaperId", "int">>, <<"Rank", "int">>, <<"Doi", "str">>, <<"DocType", "str">>,
    <<"PaperTitle", "str">>, <<"OriginalTitle", "str">>, <<"BookTitle", "str">>,
    <<"Year", "int">>, <<"Date", "str">>, <<"OnlineDate", "str">>,
    <<"Publisher", "str">>, <<"JournalId", "int">>, <<"ConferenceSeriesId", "int">>,
    <<"ConferenceInstanceId", "int">>, <<"Volume", "str">>, <<"Issue", "str">>,
    <<"FirstPage", "str">>, <<"LastPage", "str">>, <<"ReferenceCount", "int">>,
    <<"CitationCount", "int">>, <<"EstimatedCitation", "int">>,
    <<"OriginalVenue", "str">>, <<"FamilyId", "int">>, <<"FamilyRank", "int">>,
    <<"DocSubTypes", "str">>, <<"CreatedDate", "str">> >>

PAPER_AUTHOR_AFFILIATIONS_SCHEMA == <<
    <<"PaperId", "int">>, <<"AuthorId", "int">>, <<"AffiliationId", "int">>,
    <<"AuthorSequenceNumber", "int">>, <<"OriginalAuthor", "str">>,
    <<"OriginalAffiliation", "str">> >>

PAPER_REFERENCES == << <<"PaperId", "int">>, <<"PaperReferenceId", "int">> >>

FIELDS_OF_STUDY == <<
    <<"FieldOfStudyId", "int">>, <<"Rank", "int">>, <<"NormalizedName", "str">>,
    <<"DisplayName", "str">>, <<"MainType", "str">>, <<"Level", "int">>,
    <<"PaperCount", "int">>, <<"PaperFamilyCount", "int">>,
    <<"CitationCount", "int">>, <<"CreatedDate", "str">> >>

PAPER_FIELDS_OF_STUDY == <<
    <<"PaperId", "int">>, <<"FieldOfStudyId", "int">>, <<"Score", "float">> >>

JOURNALS == <<
    <<"JournalId", "int">>, <<"Rank", "int">>, <<"NormalizedName", "str">>,
    <<"DisplayName", "str">>, <<"Issn", "str">>, <<"Publisher", "str">>,
    <<"Webpage", "str">>, <<"PaperCount", "int">>, <<"PaperFamilyCount", "int">>,
    <<"CitationCount", "int">>, <<"CreatedDate", "str">> >>

\* convert_row with "except IndexError" taken for a ValueError too: the first
\* cell that does not parse ends the loop like a missing cell.
convert_row_break(cells, schema) ==
    LET n == Len(schema)
        bad(i) == i > Len(cells) \/ ParseCell(schema[i][2], cells[i]) = None
        vals == [i \in 1..n |->
                    IF \E j \in 1..i : bad(j) THEN None
                    ELSE ParseCell(schema[i][2], cells[i])]
    IN [c \in {schema[j][1] : j \in 1..n} |->
           vals[CHOOSE i \in 1..n : schema[i][1] = c]]

\* MAG.convert_row; cells is row.rstrip("\n").split("\t"), which is never empty.
\* Column i of the result: past the end of the line the IndexError branch nulls
\* it (and, with it, every later column); a cell that c_type rejects (ValueError)
\* nulls that column only and the loop goes on to the next one.
convert_row(cells, schema) ==
    LET n == Len(schema)
        vals == [i \in 1..n |->
                    IF i > Len(cells) THEN None
                    ELSE ParseCell(schema[i][2], cells[i])]
    IN [c \in {schema[j][1] : j \in 1..n} |->
           vals[CHOOSE i \in 1..n : schema[i][1] = c]]

\* A line of Papers.txt with the five columns the generator reads.
PaperCells(id, doi, title, year, jid) ==
    <<id, "1", doi, "T", "T", title, "T", year, "T", "T", "T", jid, "1", "1",
      "T", "T", "T", "T", "1", "1", "1", "T", "1", "1", "T", "T">>
AuthorCells(id, name) == <<id, "1", "1", "1", name, "T">>
FieldCells(id, name) == <<id, "1", "T", name, "T", "1", "1", "1", "1", "T">>
JournalCells(id, name) == <<id, "1", "T", name, "T", "T", "T", "1", "1", "1", "T">>

-----------------------------------------------------------------------------
(* Dictionaries (dict, defaultdict) are functions; <<>> is the empty one.  *)

\* d[k].append(val) on a defaultdict(list)
AppendAt(d, k, val) ==
    IF k \in DOMAIN d THEN [d EXCEPT ![k] = Append(@, val)] ELSE (k :> <<val>>) @@ d

\* reading d[k] on a defaultdict(list) inserts the empty list for a missing key
Touch(d, k) == IF k \in DOMAIN d THEN d ELSE (k :> <<>>) @@ d

\* d[k] = val
SetAt(d, k, val) == [c \in DOMAIN d \cup {k} |-> IF c = k THEN val ELSE d[c]]

-----------------------------------------------------------------------------
(* File handles.                                                           *)

Paths == {"paa", "refs", "fos", "pfos", "journals", "papers"}

\* MAG._open_file: a cached handle is returned as it is, a new one starts at 0.
_open_file(o, p) == IF p \in DOMAIN o THEN o ELSE (p :> 0) @@ o

\* The sets of paths that may be without a file.
Absent == {m \in SUBSET Paths : Cardinality(m) <= MaxMissing}

\* open(p, "r") in _open_file succeeds, or the handle is cached and no open is made.
CanOpen_always(o, p) == TRUE
CanOpen(o, p) == p \in DOMAIN o \/ p \notin missing

\* MAG.__exit__: every handle is closed and the cache is emptied.
ExitFiles_leak(o) == o
ExitFiles(o) == <<>>

\* The lines "for row in f" still delivers from a handle at position n.
Rest(lines, n) == SubSeq(lines, n + 1, Len(lines))

\* The loops "for row in self.<file>(): d[row[key]].append(row[val])".
RECURSIVE group_rows(_, _, _, _, _)
group_rows(lines, schema, key, val, d) ==
    IF lines = <<>> THEN d
    ELSE LET row == convert_row(Head(lines), schema)
         IN group_rows(Tail(lines), schema, key, val, AppendAt(d, row[key], row[val]))

\* The loops "for row in self.<file>(): d[row[key]] = row[val]".
RECURSIVE map_rows(_, _, _, _, _)
map_rows(lines, schema, key, val, d) ==
    IF lines = <<>> THEN d
    ELSE LET row == convert_row(Head(lines), schema)
         IN map_rows(Tail(lines), schema, key, val, SetAt(d, row[key], row[val]))

\* a > b on Python values raises TypeError when one of them is None.
GreaterRaises(a, b) == a.t = "None" \/ b.t = "None"
Greater(a, b) == a.v > b.v

\* The loop over PaperFieldsOfStudy (lines 371-373): the dictionary and the
\* number of lines consumed, and whether the comparison raised.
RECURSIVE score_rows(_, _, _, _)
score_rows(lines, thr, d, n) ==
    IF lines = <<>> THEN [d |-> d, n |-> n, raised |-> FALSE]
    ELSE LET row == convert_row(Head(lines), PAPER_FIELDS_OF_STUDY)
         IN IF GreaterRaises(row["Score"], thr)
            THEN [d |-> d, n |-> n + 1, raised |-> TRUE]
            ELSE score_rows(Tail(lines), thr,
                            IF Greater(row["Score"], thr)
                            THEN AppendAt(d, row["PaperId"], row["FieldOfStudyId"])
                            ELSE d,
                            n + 1)

\* "if fields and authors and references" (line 394)
IsComplete_noRefs(fields, authors, references) == fields # <<>> /\ authors # <<>>
IsComplete(fields, authors, references) ==
    fields # <<>> /\ authors # <<>> /\ references # <<>>

\* "not(PaperId and OriginalTitle and Year)" (line 382)
HasHead(row) ==
    Truthy(row["PaperId"]) /\ Truthy(row["OriginalTitle"]) /\ Truthy(row["Year"])

\* yield: the consumer receives the records in the order of the yields
Emit_front(o, rec) == <<rec>> \o o
Emit(o, rec) == Append(o, rec)

FullRecord(row, authors, references, fields, js) ==
    [PaperId |-> row["PaperId"], OriginalTitle |-> row["OriginalTitle"],
     Year |-> row["Year"], Authors |-> authors, References |-> references,
     Fields |-> fields, Doi |-> row["Doi"],
     Journal |-> IF row["JournalId"] \in DOMAIN js THEN js[row["JournalId"]]
                 ELSE StrV("")]

-----------------------------------------------------------------------------
(* MAG.gen_full_records: the loading phase, then one action per paper row. *)

\* The first resumption of the generator: the five loading loops (lines 353-378).
\* A file that cannot be opened ends the run at its loop (the open() in
\* _open_file raises), and a raise in the score loop ends it before the
\* journals are read.
Load ==
    /\ status = "running" /\ pc = "load"
    /\ LET ok1 == CanOpen(opened, "paa")
           o1 == _open_file(opened, "paa")
           e1 == [o1 EXCEPT !["paa"] = Len(files["paa"])]
           ok2 == ok1 /\ CanOpen(e1, "refs")
           o2 == _open_file(e1, "refs")
           e2 == [o2 EXCEPT !["refs"] = Len(files["refs"])]
           ok3 == ok2 /\ CanOpen(e2, "fos")
           o3 == _open_file(e2, "fos")
           e3 == [o3 EXCEPT !["fos"] = Len(files["fos"])]
           ok4 == ok3 /\ CanOpen(e3, "pfos")
           o4 == _open_file(e3, "pfos")
           r == score_rows(Rest(files["pfos"], o4["pfos"]), threshold, <<>>, 0)
           e4 == [o4 EXCEPT !["pfos"] = o4["pfos"] + r.n]
           ok5 == ok4 /\ ~r.raised /\ CanOpen(e4, "journals")
           o5 == _open_file(e4, "journals")
           e5 == [o5 EXCEPT !["journals"] = Len(files["journals"])]
       IN /\ paper_authors' =
                 IF ok1 THEN group_rows(Rest(files["paa"], o1["paa"]),
                                 PAPER_AUTHOR_AFFILIATIONS_SCHEMA, "PaperId",
                                 "OriginalAuthor", <<>>)
                 ELSE paper_authors
          /\ paper_references' =
                 IF ok2 THEN group_rows(Rest(files["refs"], o2["refs"]),
                                 PAPER_REFERENCES, "PaperId", "PaperReferenceId", <<>>)
                 ELSE paper_references
          /\ fields_of_study' =
                 IF ok3 THEN map_rows(Rest(files["fos"], o3["fos"]),
                                 FIELDS_OF_STUDY, "FieldOfStudyId", "DisplayName", <<>>)
                 ELSE fields_of_study
          /\ papers_fields_of_study' = IF ok4 THEN r.d ELSE papers_fields_of_study
          /\ journals' =
                 IF ok5 THEN map_rows(Rest(files["journals"], o5["journals"]),
                                 JOURNALS, "JournalId", "DisplayName", <<>>)
                 ELSE journals
          /\ opened' = IF ok5 THEN e5 ELSE IF ok4 THEN e4 ELSE IF ok3 THEN e3
                       ELSE IF ok2 THEN e2 ELSE IF ok1 THEN e1 ELSE opened
          /\ IF ok5 THEN status' = "running" /\ pc' = "papers"
                    ELSE status' = "raised" /\ pc' = pc
    /\ UNCHANGED <<files, threshold, out, run, fresh, released, first>>
    /\ UNCHANGED <<idxVars, binVars, extVars>>

\* One iteration of "for paper_row in self.papers" (lines 381-404).
PaperStep ==
    /\ status = "running" /\ pc = "papers"
    /\ CanOpen(opened, "papers")
    /\ LET o == _open_file(opened, "papers")
           n == o["papers"]
       IN /\ n < Len(files["papers"])
          /\ opened' = [o EXCEPT !["papers"] = n + 1]
          /\ LET row == convert_row(files["papers"][n + 1], PAPERS_SCHEMA)
                 pid == row["PaperId"]
                 pfs == Touch(papers_fields_of_study, pid)
                 pa == Touch(paper_authors, pid)
                 pr == Touch(paper_references, pid)
             IN IF ~HasHead(row)
                THEN UNCHANGED <<papers_fields_of_study, paper_authors,
                                 paper_references, out>>
                ELSE IF \E i \in 1..Len(pfs[pid]) : pfs[pid][i] \notin DOMAIN fields_of_study
                THEN \* KeyError in line 387: the authors and references are not read
                     /\ papers_fields_of_study' = pfs
                     /\ UNCHANGED <<paper_authors, paper_references, out>>
                ELSE LET fields == [i \in 1..Len(pfs[pid]) |-> fields_of_study[pfs[pid][i]]]
                     IN /\ papers_fields_of_study' = pfs
                        /\ paper_authors' = pa
                        /\ paper_references' = pr
                        /\ out' = IF IsComplete(fields, pa[pid], pr[pid])
                                  THEN Emit(out, FullRecord(row, pa[pid], pr[pid],
                                                            fields, journals))
                                  ELSE out
    /\ UNCHANGED <<files, threshold, pc, status, fields_of_study, journals,
                   run, fresh, released, first>>
    /\ UNCHANGED <<idxVars, binVars, extVars>>

\* The papers file is exhausted: the generator returns.
Finish ==
    /\ status = "running" /\ pc = "papers"
    /\ CanOpen(opened, "papers")
    /\ LET o == _open_file(opened, "papers")
       IN /\ o["papers"] >= Len(files["papers"])
          /\ opened' = o
    /\ status' = "done"
    /\ UNCHANGED <<files, threshold, pc, genVars, out, run, fresh, released, first>>
    /\ UNCHANGED <<idxVars, binVars, extVars>>

\* Papers.txt cannot be opened: self.papers raises at the first iteration.
PapersFail ==
    /\ status = "running" /\ pc = "papers"
    /\ ~CanOpen(opened, "papers")
    /\ status' = "raised"
    /\ UNCHANGED <<files, threshold, opened, pc, genVars, out, run, fresh, released, first>>
    /\ UNCHANGED <<idxVars, binVars, extVars>>

\* gen_full_records is called again after a run has ended (same MAG object).
GenAgain ==
    /\ status \in {"done", "raised"} /\ run < MaxRuns
    /\ first' = IF run = 1 THEN <<status, out>> ELSE first
    /\ run' = run + 1
    /\ fresh' = released
    /\ released' = FALSE
    /\ status' = "running" /\ pc' = "load"
    /\ out' = <<>>
    /\ paper_authors' = <<>> /\ paper_references' = <<>> /\ fields_of_study' = <<>>
    /\ papers_fields_of_study' = <<>> /\ journals' = <<>>
    /\ UNCHANGED <<files, threshold, opened>>
    /\ UNCHANGED <<idxVars, binVars, extVars>>

\* MAG.__exit__ after a run has ended (the "with MAG(...)" block is left).
Exit ==
    /\ status \in {"done", "raised"} /\ ~released
    /\ opened' = ExitFiles(opened)
    /\ released' = TRUE
    /\ UNCHANGED <<files, threshold, pc, status, genVars, out, run, fresh, first>>
    /\ UNCHANGED <<idxVars, binVars, extVars>>

-----------------------------------------------------------------------------
(* Input files.                                                            *)

\* The reference input: two papers (ids not ascending), each with an author,
\* a reference and a scored field; one field of study; one journal.
Slots == << <<"papers", PaperCells("2", "", "T", "2020", "9")>>,
            <<"papers", PaperCells("1", "D", "T", "2020", "3")>>,
            <<"paa", AuthorCells("1", "A")>>,
            <<"paa", AuthorCells("2", "B")>>,
            <<"refs", <<"1", "9">> >>,
            <<"refs", <<"2", "9">> >>,
            <<"fos", FieldCells("7", "F")>>,
            <<"pfos", <<"1", "7", "0.5">> >>,
            <<"pfos", <<"2", "7", "0.5">> >>,
            <<"journals", JournalCells("3", "J")>> >>

\* A slot of the reference input can lose its line or get one of these instead:
\* other keys, falsy values, short lines, cells that do not parse.
Gone == <<"gone">>
Variants(p) ==
    CASE p = "papers" ->
           {Gone, <<"">>,
            PaperCells("1", "D", "T", "0", "3"), PaperCells("0", "D", "T", "2020", "3"),
            PaperCells("1", "D", "", "2020", "3"), PaperCells("x", "D", "T", "2020", "3"),
            PaperCells("1", "D", "T", "x", "3"),
            SubSeq(PaperCells("1", "D", "T", "2020", "3"), 1, 5),
            SubSeq(PaperCells("1", "D", "T", "2020", "3"), 1, 8)}
      [] p = "paa" ->
           {Gone, <<"1">>, AuthorCells("1", "C"), AuthorCells("2", "C"),
            AuthorCells("0", "A"), AuthorCells("x", "A")}
      [] p = "refs" ->
           {Gone, <<"1">>, <<"1", "8">>, <<"2", "8">>, <<"0", "9">>, <<"1", "x">>}
      [] p = "fos" ->
           {Gone, <<"7">>, FieldCells("8", "G"), FieldCells("x", "F")}
      [] p = "pfos" ->
           {Gone, <<"1", "7">>, <<"1", "7", "x">>, <<"x", "7", "0.5">>,
            <<"1", "7", "0.0">>, <<"1", "8", "0.5">>, <<"2", "7", "1">>}
      [] p = "journals" ->
           {Gone, <<"3">>, JournalCells("9", "K")}

\* The choices of a line for the slots from i on, with at most `budget` slots
\* that depart from the reference input.
RECURSIVE Choices(_, _)
Choices(i, budget) ==
    IF i > Len(Slots) THEN {<<>>}
    ELSE {<<Slots[i][2]>> \o c : c \in Choices(i + 1, budget)}
         \cup (IF budget = 0 THEN {}
               ELSE {<<v>> \o c : v \in Variants(Slots[i][1]),
                                  c \in Choices(i + 1, budget - 1)})

RECURSIVE LinesOf(_, _, _)
LinesOf(ch, p, i) ==
    IF i > Len(Slots) THEN <<>>
    ELSE (IF Slots[i][1] = p /\ ch[i] # Gone THEN <<ch[i]>> ELSE <<>>)
         \o LinesOf(ch, p, i + 1)

FilesOf(ch) == [p \in Paths |-> LinesOf(ch, p, 1)]

Thresholds == {FloatV(0), FloatV(5)}

NoIdx == /\ index = Unset /\ query = Unset /\ found = Unset
NoBin == /\ s = <<>> /\ x = 0 /\ pos = Unset
NoRow == /\ row_in = <<>> /\ row_schema = <<>> /\ row_out = Unset
NoDs == /\ jsonl = <<>> /\ file = None /\ _id_2_line_offsets = <<>>
        /\ op = "none" /\ got = Unset
NoPool == /\ handles = <<>> /\ fileobj = <<>>

\* The `full` command: --field-of-study-threshold has type=float and no
\* default, so args.field_of_study_threshold is None when the option is left out.
parse_args(arg) == IF arg = Unset THEN None ELSE arg

\* The threshold gen_full_records runs with.  create_full passes
\* args.field_of_study_threshold as it is; a direct call without the argument
\* gets the default 0.0 of the parameter.
Passed(c) ==
    IF c.via = "cli" THEN parse_args(c.arg)
    ELSE IF c.arg = Unset THEN FloatV(0) ELSE c.arg

Direct == {[via |-> "api", arg |-> a] : a \in Thresholds}
NoCall == /\ call = [via |-> "api", arg |-> FloatV(0)] /\ missing = {}

\* The state after MAG(p) and the call of gen_full_records: the input has at
\* most `edits` departing lines, the call is one of `calls`, and the set of
\* paths without a file is one of `absent`.
InitRun(edits, calls, absent) ==
    /\ files \in {FilesOf(ch) : ch \in Choices(1, edits)}
    /\ call \in calls
    /\ threshold = Passed(call)
    /\ missing \in absent
    /\ opened = <<>>
    /\ pc = "load" /\ status = "running"
    /\ paper_authors = <<>> /\ paper_references = <<>> /\ fields_of_study = <<>>
    /\ papers_fields_of_study = <<>> /\ journals = <<>>
    /\ out = <<>> /\ run = 1 /\ fresh = TRUE /\ released = FALSE /\ first = None
    /\ NoIdx /\ NoBin /\ NoRow /\ NoDs /\ NoPool

\* gen_full_records(threshold) called directly, every file present.
InitGen(edits) == InitRun(edits, Direct, {{}})

Init == InitGen(MaxEdits)

Next == Load \/ PaperStep \/ Finish

Spec == Init /\ [][Next]_vars

-----------------------------------------------------------------------------
(* bin_search (mag/utils.py) with the loop of bisect.bisect_left.          *)

RECURSIVE bisect_left(_, _, _, _)
bisect_left(a, v, l, h) ==
    IF l < h
    THEN LET mid == (l + h) \div 2
         IN IF a[mid + 1] < v THEN bisect_left(a, v, mid + 1, h)
            ELSE bisect_left(a, v, l, mid)
    ELSE l

\* "pos < len(s) and s[pos] == x" (line 22); positions count from 0
IsHit_nearest(a, p, v) == p < Len(a)
IsHit(a, p, v) == p < Len(a) /\ a[p + 1] = v

bin_search(a, v) ==
    LET p == bisect_left(a, v, 0, Len(a))
    IN IF IsHit(a, p, v) THEN IntV(p) ELSE None

-----------------------------------------------------------------------------
(* MAG.make_index and MAG.search_field_for_paper.                          *)

\* Bytes of a line: its cells, the tabs between them and the newline.
RECURSIVE CellsLen(_)
CellsLen(cells) ==
    IF cells = <<>> THEN 0 ELSE CellLen(Head(cells)) + CellsLen(Tail(cells))
LineLen(cells) == CellsLen(cells) + (Len(cells) - 1) + 1

\* f.tell() before line i is read: the byte offset at which line i starts.
RECURSIVE Offset(_, _)
Offset(lines, i) == IF i <= 1 THEN 0 ELSE Offset(lines, i - 1) + LineLen(lines[i - 1])

\* f.seek(off): the number of lines that lie before the handle.  The offsets
\* of an index are starts of lines.
Seek(lines, off) == Cardinality({i \in 1..Len(lines) : Offset(lines, i) < off})

MinusInf == [t |-> "-inf"]

\* "last != paper_id" (line 294): a new key
IsNew_always(last, paper_id) == TRUE
IsNew(last, paper_id) == last # IntV(paper_id)

\* "last > paper_id" (line 299): the non-decreasing property is violated
Decreases_orTies(last, paper_id) == last.t = "int" /\ last.v >= paper_id
Decreases(last, paper_id) == last.t = "int" /\ last.v > paper_id

\* The loop of make_index from line i on.
RECURSIVE index_loop(_, _, _, _, _)
index_loop(lines, i, last, keys, offs) ==
    IF i > Len(lines) THEN [t |-> "index", keys |-> keys, offsets |-> offs]
    ELSE LET cell == lines[i][1]       \* line.split("\t", maxsplit=1)[0]
         IN IF cell \notin DOMAIN IntOf THEN Raised("ValueError")
            ELSE LET paper_id == IntOf[cell]
                     new == IsNew(last, paper_id)
                 IN IF Decreases(last, paper_id) THEN None
                    ELSE index_loop(lines, i + 1, IntV(paper_id),
                             IF new THEN Append(keys, paper_id) ELSE keys,
                             IF new THEN Append(offs, Offset(lines, i)) ELSE offs)

make_index(lines) == index_loop(lines, 1, MinusInf, <<>>, <<>>)

\* "row['PaperId'] != paper_id: break" (line 337)
SameGroup_any(row, paper_id) == TRUE
SameGroup(row, paper_id) == row["PaperId"] = paper_id

\* The loop of search_field_for_paper over the rows the generator delivers:
\* the values gathered, the rows consumed, and whether sys.intern raised.
RECURSIVE gather(_, _, _, _, _, _, _)
gather(lines, schema, paper_id, field_name, use_intern, res, n) ==
    IF lines = <<>> THEN [res |-> res, n |-> n, raised |-> FALSE]
    ELSE LET row == convert_row(Head(lines), schema)
         IN IF ~SameGroup(row, paper_id) THEN [res |-> res, n |-> n + 1, raised |-> FALSE]
            ELSE IF use_intern /\ row[field_name].t # "str"
                 THEN [res |-> res, n |-> n + 1, raised |-> TRUE]
                 ELSE gather(Tail(lines), schema, paper_id, field_name, use_intern,
                             Append(res, row[field_name]), n + 1)

\* The child file that is indexed and searched, with its row generator.
Child == "paa"
ChildSchema == PAPER_AUTHOR_AFFILIATIONS_SCHEMA

IdxLines ==
    {AuthorCells("1", "A"), AuthorCells("1", "B"), AuthorCells("2", "A"), <<"2">>,
     AuthorCells("3", "C"), AuthorCells("x", "A")}
FieldNames == {"OriginalAuthor", "AuthorId"}

MakeIndex ==
    /\ pc = "index"
    /\ index' = make_index(files[Child])
    /\ pc' = "search"
    /\ UNCHANGED <<files, threshold, opened, status, genVars, out, run, fresh,
                   released, first, query, found, binVars, extVars>>

\* search_field_for_paper(paper_id, keys, offsets, self.paper_author_affiliations,
\* field_name, use_intern) with the index that make_index returned.
Search ==
    /\ pc = "search" /\ index.t = "index"
    /\ \E paper_id \in {IntV(n) : n \in 0..MaxId}, field_name \in FieldNames,
          use_intern \in BOOLEAN :
          LET start_offset == bin_search(index.keys, paper_id.v)
          IN /\ query' = [paper_id |-> paper_id, field_name |-> field_name,
                          use_intern |-> use_intern]
             /\ IF start_offset = None
                THEN found' = ListV(<<>>) /\ opened' = opened
                ELSE LET o == _open_file(opened, Child)
                         at == Seek(files[Child], index.offsets[start_offset.v + 1])
                         g == gather(Rest(files[Child], at), ChildSchema, paper_id,
                                     field_name, use_intern, <<>>, 0)
                     IN /\ opened' = [o EXCEPT ![Child] = at + g.n]
                        /\ found' = IF g.raised THEN Raised("TypeError") ELSE ListV(g.res)
    /\ UNCHANGED <<files, threshold, pc, status, genVars, out, run, fresh,
                   released, first, index, binVars, extVars>>

InitIdx ==
    /\ \E lines \in UNION {[1..k -> IdxLines] : k \in 0..MaxIdxLines} :
          files = [p \in Paths |-> IF p = Child THEN lines ELSE <<>>]
    /\ threshold = FloatV(0)
    /\ opened = <<>>
    /\ pc = "index" /\ status = "idle"
    /\ paper_authors = <<>> /\ paper_references = <<>> /\ fields_of_study = <<>>
    /\ papers_fields_of_study = <<>> /\ journals = <<>>
    /\ out = <<>> /\ run = 1 /\ fresh = TRUE /\ released = FALSE /\ first = None
    /\ NoIdx /\ NoBin /\ NoCall /\ NoRow /\ NoDs /\ NoPool

NextIdx == MakeIndex \/ Search
SpecIdx == InitIdx /\ [][NextIdx]_vars

\* bin_search applied to an ascending sequence.
BinSearch ==
    /\ pc = "bin"
    /\ pos' = bin_search(s, x)
    /\ pc' = "bin_done"
    /\ UNCHANGED <<files, threshold, opened, status, genVars, out, run, fresh,
                   released, first, idxVars, s, x, extVars>>

Ascending(a) == \A i \in 1..(Len(a) - 1) : a[i] <= a[i + 1]

InitBin ==
    /\ s \in {a \in UNION {[1..k -> 0..MaxVal] : k \in 0..MaxLen} : Ascending(a)}
    /\ x \in -1..(MaxVal + 1)
    /\ pos = Unset
    /\ files = [p \in Paths |-> <<>>]
    /\ threshold = FloatV(0)
    /\ opened = <<>>
    /\ pc = "bin" /\ status = "idle"
    /\ paper_authors = <<>> /\ paper_references = <<>> /\ fields_of_study = <<>>
    /\ papers_fields_of_study = <<>> /\ journals = <<>>
    /\ out = <<>> /\ run = 1 /\ fresh = TRUE /\ released = FALSE /\ first = None
    /\ NoIdx /\ NoCall /\ NoRow /\ NoDs /\ NoPool

NextBin == BinSearch
SpecBin == InitBin /\ [][NextBin]_vars

-----------------------------------------------------------------------------
(* JsonlDataset (mag/dataset.py).  A line <<id, title>> stands for the text *)
(* {"PaperId": id, "OriginalTitle": "title"} and its newline.               *)

DictV(d) == [t |-> "dict", v |-> d]

\* json.loads(line)
json_loads(line) == [PaperId |-> IntV(IntOf[line[1]]), OriginalTitle |-> StrV(line[2])]

\* Bytes of a line of the file.
JsonLen(line) == 35 + CellLen(line[1]) + CellLen(line[2])

\* f.tell() after i lines have been read from the start.
RECURSIVE Tell(_, _)
Tell(lines, i) == IF i = 0 THEN 0 ELSE Tell(lines, i - 1) + JsonLen(lines[i])

\* _index_file: the loop from line i on, line_offset being the start of line i.
RECURSIVE index_file(_, _, _, _)
index_file(lines, i, line_offset, d) ==
    IF i > Len(lines) THEN d
    ELSE index_file(lines, i + 1, Tell(lines, i),
                    SetAt(d, json_loads(lines[i]).PaperId.v, line_offset))

_index_file(lines) == index_file(lines, 1, 0, <<>>)

\* self._id_2_line_offsets[mag_id]
lookup_get(d, mag_id) == IF mag_id \in DOMAIN d THEN IntV(d[mag_id]) ELSE IntV(0)
lookup(d, mag_id) == IF mag_id \in DOMAIN d THEN IntV(d[mag_id]) ELSE Raised("KeyError")

\* self.file.seek(offset): the position of the handle afterwards
seek_stay(position, offset) == position
seek(position, offset) == offset

\* json.loads(self.file.readline()) with the handle at `position`, and the
\* position afterwards; at the end of the file readline returns "".
readline(lines, position) ==
    IF \E i \in 1..Len(lines) : Tell(lines, i - 1) = position
    THEN LET i == CHOOSE j \in 1..Len(lines) : Tell(lines, j - 1) = position
         IN [out |-> DictV(json_loads(lines[i])), at |-> Tell(lines, i)]
    ELSE [out |-> Raised("JSONDecodeError"), at |-> position]

\* open(): opens the file if it is closed
DsOpen ==
    /\ pc = "dataset"
    /\ file' = IF file = None THEN IntV(0) ELSE file
    /\ op' = "open"
    /\ UNCHANGED <<jsonl, _id_2_line_offsets, got>>
    /\ UNCHANGED <<files, threshold, opened, pc, status, genVars, out, run, fresh,
                   released, first, idxVars, binVars, call, missing, rowVars, poolVars>>

\* __enter__: self.open()
DsEnter ==
    /\ pc = "dataset"
    /\ file' = IF file = None THEN IntV(0) ELSE file
    /\ op' = "enter"
    /\ UNCHANGED <<jsonl, _id_2_line_offsets, got>>
    /\ UNCHANGED <<files, threshold, opened, pc, status, genVars, out, run, fresh,
                   released, first, idxVars, binVars, call, missing, rowVars, poolVars>>

\* close(): closes the file if it is open
DsClose ==
    /\ pc = "dataset"
    /\ file' = None
    /\ op' = "close"
    /\ UNCHANGED <<jsonl, _id_2_line_offsets, got>>
    /\ UNCHANGED <<files, threshold, opened, pc, status, genVars, out, run, fresh,
                   released, first, idxVars, binVars, call, missing, rowVars, poolVars>>

\* __exit__: self.close()
DsExit ==
    /\ pc = "dataset"
    /\ file' = None
    /\ op' = "exit"
    /\ UNCHANGED <<jsonl, _id_2_line_offsets, got>>
    /\ UNCHANGED <<files, threshold, opened, pc, status, genVars, out, run, fresh,
                   released, first, idxVars, binVars, call, missing, rowVars, poolVars>>

\* The ids looked up: those of the lines, and one that no line has.
DsIds == {1, 2, 3, 10}

\* __getitem__(mag_id)
GetItem ==
    /\ pc = "dataset"
    /\ \E mag_id \in DsIds :
          /\ op' = "getitem"
          /\ IF file = None
             THEN /\ got' = [id |-> mag_id, out |-> Raised("RuntimeError")]
                  /\ file' = file
             ELSE LET offset == lookup(_id_2_line_offsets, mag_id)
                  IN IF offset.t = "raise"
                     THEN /\ got' = [id |-> mag_id, out |-> offset]
                          /\ file' = file
                     ELSE LET r == readline(jsonl, seek(file.v, offset.v))
                          IN /\ got' = [id |-> mag_id, out |-> r.out]
                             /\ file' = IntV(r.at)
    /\ UNCHANGED <<jsonl, _id_2_line_offsets>>
    /\ UNCHANGED <<files, threshold, opened, pc, status, genVars, out, run, fresh,
                   released, first, idxVars, binVars, call, missing, rowVars, poolVars>>

DsLines == {<<"1", "T">>, <<"1", "">>, <<"2", "">>, <<"10", "T">>}

\* The state after JsonlDataset(p): closed, the file indexed.
InitDs ==
    /\ jsonl \in UNION {[1..k -> DsLines] : k \in 0..MaxDsLines}
    /\ file = None
    /\ _id_2_line_offsets = _index_file(jsonl)
    /\ op = "init" /\ got = Unset
    /\ files = [p \in Paths |-> <<>>]
    /\ threshold = FloatV(0)
    /\ opened = <<>>
    /\ pc = "dataset" /\ status = "idle"
    /\ paper_authors = <<>> /\ paper_references = <<>> /\ fields_of_study = <<>>
    /\ papers_fields_of_study = <<>> /\ journals = <<>>
    /\ out = <<>> /\ run = 1 /\ fresh = TRUE /\ released = FALSE /\ first = None
    /\ NoIdx /\ NoBin /\ NoCall /\ NoRow /\ NoPool

NextDs == DsOpen \/ DsEnter \/ DsClose \/ DsExit \/ GetItem
SpecDs == InitDs /\ [][NextDs]_vars

-----------------------------------------------------------------------------
(* The handle pool of MAG: the file objects behind _opened_files.          *)

\* self._opened_files[p] = open(p, "r"): a new file object for path p
open_new(hs, p) == Append(hs, [path |-> p, closed |-> FALSE])

\* "for _, f in self._opened_files.items(): f.close()"
close_all_none(hs, fo) == hs
close_all(hs, fo) ==
    [i \in DOMAIN hs |->
        IF \E p \in DOMAIN fo : fo[p] = i THEN [hs[i] EXCEPT !.closed = TRUE] ELSE hs[i]]

\* A row generator of path p is called and iterated to its end (papers,
\* paper_author_affiliations, paper_references, fields_of_study,
\* paper_fields_of_study, journals).
Rows ==
    /\ pc = "pool"
    /\ \E p \in Paths :
          /\ CanOpen(opened, p)
          /\ IF p \in DOMAIN fileobj
             THEN UNCHANGED <<handles, fileobj>>
             ELSE /\ handles' = open_new(handles, p)
                  /\ fileobj' = (p :> Len(handles) + 1) @@ fileobj
          /\ opened' = [_open_file(opened, p) EXCEPT ![p] = Len(files[p])]
    /\ UNCHANGED <<files, threshold, pc, status, genVars, out, run, fresh, released,
                   first, idxVars, binVars, call, missing, rowVars, dsVars>>

\* A row generator of an absent file is called: open() raises inside the
\* "with MAG(...)" block.
RowsFail ==
    /\ pc = "pool"
    /\ \E p \in Paths : ~CanOpen(opened, p)
    /\ pc' = "failed"
    /\ UNCHANGED <<files, threshold, opened, status, genVars, out, run, fresh, released,
                   first, idxVars, binVars, call, missing, rowVars, dsVars, poolVars>>

\* MAG.__exit__, at the normal end of the block or with the exception.
ExitPool ==
    /\ pc \in {"pool", "failed"}
    /\ handles' = close_all(handles, fileobj)
    /\ fileobj' = <<>>
    /\ opened' = ExitFiles(opened)
    /\ status' = IF pc = "failed" THEN "raised" ELSE "done"
    /\ pc' = "exited"
    /\ released' = TRUE
    /\ UNCHANGED <<files, threshold, genVars, out, run, fresh, first, idxVars, binVars,
                   call, missing, rowVars, dsVars>>

InitPool ==
    /\ files = FilesOf([i \in 1..Len(Slots) |-> Slots[i][2]])
    /\ missing \in Absent
    /\ handles = <<>> /\ fileobj = <<>>
    /\ call = [via |-> "api", arg |-> FloatV(0)]
    /\ threshold = FloatV(0)
    /\ opened = <<>>
    /\ pc = "pool" /\ status = "idle"
    /\ paper_authors = <<>> /\ paper_references = <<>> /\ fields_of_study = <<>>
    /\ papers_fields_of_study = <<>> /\ journals = <<>>
    /\ out = <<>> /\ run = 1 /\ fresh = TRUE /\ released = FALSE /\ first = None
    /\ NoIdx /\ NoBin /\ NoRow /\ NoDs

NextPool == Rows \/ RowsFail \/ ExitPool
SpecPool == InitPool /\ [][NextPool]_vars

-----------------------------------------------------------------------------
(* Specifications of the other entry points.                               *)

\* gen_full_records reached through the `full` command or called directly,
\* with the threshold given or left out.
Calls == [via : {"api", "cli"}, arg : {Unset} \cup Thresholds]
InitCall == InitRun(MaxRerunEdits, Calls, {{}})
NextCall == Load \/ PaperStep \/ Finish
SpecCall == InitCall /\ [][NextCall]_vars

\* gen_full_records on a root folder in which some input files are absent.
InitMissing == InitRun(MaxRerunEdits, Direct, Absent)
NextMissing == Load \/ PaperStep \/ Finish \/ PapersFail
SpecMissing == InitMissing /\ [][NextMissing]_vars

\* convert_row applied to one line under one schema.
ConvertRow ==
    /\ pc = "row"
    /\ row_out' = convert_row(row_in, row_schema)
    /\ pc' = "row_done"
    /\ UNCHANGED <<files, threshold, opened, status, genVars, out, run, fresh,
                   released, first, idxVars, binVars, call, missing, row_in,
                   row_schema, dsVars, poolVars>>

RowCells == {"1", "7", "0.5", "x", ""}
RowSchemas == {PAPER_REFERENCES, PAPER_FIELDS_OF_STUDY, PAPER_AUTHOR_AFFILIATIONS_SCHEMA}

InitRow ==
    /\ row_in \in UNION {[1..k -> RowCells] : k \in 1..MaxCells}
    /\ row_schema \in RowSchemas
    /\ row_out = Unset
    /\ files = [p \in Paths |-> <<>>]
    /\ threshold = FloatV(0)
    /\ opened = <<>>
    /\ pc = "row" /\ status = "idle"
    /\ paper_authors = <<>> /\ paper_references = <<>> /\ fields_of_study = <<>>
    /\ papers_fields_of_study = <<>> /\ journals = <<>>
    /\ out = <<>> /\ run = 1 /\ fresh = TRUE /\ released = FALSE /\ first = None
    /\ NoIdx /\ NoBin /\ NoCall /\ NoDs /\ NoPool

NextRow == ConvertRow
SpecRow == InitRow /\ [][NextRow]_vars

\* Reruns: the generator is driven to its end, then called again, with or
\* without leaving the "with" block in between.
InitRerun == InitGen(MaxRerunEdits)
NextRerun == Load \/ PaperStep \/ Finish \/ GenAgain \/ Exit
SpecRerun == InitRerun /\ [][NextRerun]_vars

-----------------------------------------------------------------------------
(* Properties of gen_full_records.                                         *)

PaperRow(i) == convert_row(files["papers"][i], PAPERS_SCHEMA)
PaperKey(row) == <<row["PaperId"], row["OriginalTitle"], row["Year"], row["Doi"]>>
RecordKey(rec) == <<rec.PaperId, rec.OriginalTitle, rec.Year, rec.Doi>>
Ended == status \in {"done", "raised"}

HasRow(p, schema, pid) ==
    \E j \in 1..Len(files[p]) : convert_row(files[p][j], schema)["PaperId"] = pid
HasScore(pid) ==
    \E j \in 1..Len(files["pfos"]) :
        LET row == convert_row(files["pfos"][j], PAPER_FIELDS_OF_STUDY)
        IN row["PaperId"] = pid /\ row["Score"] # None /\ row["Score"].v > threshold.v
Qualifies(row) ==
    /\ row["PaperId"] # None /\ row["OriginalTitle"] # None /\ row["Year"] # None
    /\ HasRow("paa", PAPER_AUTHOR_AFFILIATIONS_SCHEMA, row["PaperId"])
    /\ HasRow("refs", PAPER_REFERENCES, row["PaperId"])
    /\ HasScore(row["PaperId"])
QualifyingKeys ==
    LET all == [i \in 1..Len(files["papers"]) |-> PaperRow(i)]
        RECURSIVE pick(_)
        pick(i) == IF i > Len(all) THEN <<>>
                   ELSE (IF Qualifies(all[i]) THEN <<PaperKey(all[i])>> ELSE <<>>)
                        \o pick(i + 1)
    IN pick(1)

\* C2: a run that has ended has yielded exactly one record per qualifying paper
\* row (non-null PaperId, OriginalTitle, Year; an author row, a reference row and
\* a field association with score > threshold), and none for any other row.
C2_ExactlyQualifying ==
    Ended => [k \in 1..Len(out) |-> RecordKey(out[k])] = QualifyingKeys

\* a is a subsequence of b (greedy matching from the left)
RECURSIVE IsSubseq(_, _)
IsSubseq(a, b) ==
    IF a = <<>> THEN TRUE
    ELSE IF b = <<>> THEN FALSE
    ELSE IF Head(a) = Head(b) THEN IsSubseq(Tail(a), Tail(b))
    ELSE IsSubseq(a, Tail(b))

RowsRead == IF "papers" \in DOMAIN opened THEN opened["papers"] ELSE 0

\* C3: the records yielded so far are, in their order, a subsequence of the
\* paper rows read so far, in file order.
C3_FileOrder ==
    IsSubseq([k \in 1..Len(out) |-> RecordKey(out[k])],
             [i \in 1..RowsRead |-> PaperKey(PaperRow(i))])

\* Two records have been yielded, the paper with the greater id first.
C3_Witness ==
    /\ Len(out) = 2 /\ out[1].PaperId.v > out[2].PaperId.v

\* C4 as claimed: a second run driven to completion, also one on the cached
\* handles of the same MAG object, yields the records of the completed first run.
C4_AnyRerun == (run >= 2 /\ status = "done" /\ first[1] = "done") => out = first[2]

\* C4 amended: a run that starts with an empty handle cache (a new MAG object,
\* or the same one after __exit__) ends as the first run ended, with the same
\* records in the same order.
C4_FreshRerun == (run >= 2 /\ Ended /\ fresh) => <<status, out>> = first

\* A second run on fresh handles has ended and has yielded two records.
C4_Witness == run = 2 /\ status = "done" /\ fresh /\ Len(out) = 2

\* the key column of a child file decreases somewhere
Unsorted(p, schema) ==
    \E j \in 1..(Len(files[p]) - 1) :
        LET a == convert_row(files[p][j], schema)["PaperId"]
            b == convert_row(files[p][j + 1], schema)["PaperId"]
        IN a # None /\ b # None /\ b.v < a.v

\* C5: when PaperAuthorAffiliations.txt or PaperReferences.txt has a line whose
\* paper id is smaller than the previous line's, the run aborts with an error
\* and yields no record.
C5_UnsortedIsFatal ==
    (Unsorted("paa", PAPER_AUTHOR_AFFILIATIONS_SCHEMA) \/ Unsorted("refs", PAPER_REFERENCES))
        => (out = <<>> /\ status # "done")

\* C10: a short line or an unparsable cell in an input file never makes the
\* generator raise.
C10_NeverRaises == status # "raised"

-----------------------------------------------------------------------------
(* Properties of make_index, search_field_for_paper and bin_search.        *)

ChildLines == files[Child]
KeysParse == \A i \in 1..Len(ChildLines) : ChildLines[i][1] \in DOMAIN IntOf
Key(i) == IntOf[ChildLines[i][1]]
KeyDecreases == \E i \in 1..(Len(ChildLines) - 1) : Key(i + 1) < Key(i)

\* C6: on a file in which some line's key is smaller than the key of the line
\* before it, make_index returns None and no (keys, offsets) pair; on a file
\* with a non-decreasing key column, the empty file included, it returns a pair.
C6_FailsIffUnsorted ==
    (index # Unset /\ KeysParse) =>
        IF KeyDecreases THEN index = None ELSE index.t = "index"

\* make_index has returned None on a file whose first two keys increase, so
\* that the index held entries when the decrease was met.
C6_Witness ==
    /\ index = None /\ Len(ChildLines) = 3
    /\ Key(1) < Key(2) /\ Key(3) < Key(2)

FirstLine(k) == CHOOSE i \in 1..Len(ChildLines) :
                    /\ Key(i) = k
                    /\ \A j \in 1..(i - 1) : Key(j) # k

\* C7: the pair make_index returns has one entry per distinct key of the file,
\* keys strictly increasing, offsets[i] the byte offset at which the first line
\* with keys[i] starts, and so offsets strictly increasing.
C7_IndexShape ==
    index.t = "index" =>
        /\ Len(index.keys) = Len(index.offsets)
        /\ Len(index.keys) = Cardinality({Key(i) : i \in 1..Len(ChildLines)})
        /\ \A i \in 1..(Len(index.keys) - 1) :
              /\ index.keys[i] < index.keys[i + 1]
              /\ index.offsets[i] < index.offsets[i + 1]
        /\ \A i \in 1..Len(index.keys) :
              index.offsets[i] = Offset(ChildLines, FirstLine(index.keys[i]))

\* An index of two keys over three lines, the first key on two lines.
C7_Witness ==
    /\ index.t = "index" /\ Len(ChildLines) = 3 /\ Len(index.keys) = 2
    /\ Key(1) = Key(2)

GroupLines(paper_id) ==
    {i \in 1..Len(ChildLines) : convert_row(ChildLines[i], ChildSchema)["PaperId"] = paper_id}

RECURSIVE Projected(_, _, _)
Projected(paper_id, field_name, i) ==
    IF i > Len(ChildLines) THEN <<>>
    ELSE (IF i \in GroupLines(paper_id)
          THEN <<convert_row(ChildLines[i], ChildSchema)[field_name]>> ELSE <<>>)
         \o Projected(paper_id, field_name, i + 1)

Largest(S) == CHOOSE m \in S : \A n \in S : n <= m

\* C8: with the index make_index built for the (sorted) child file, a search
\* for a paper id of the index returns the projected values of exactly the rows
\* with that id, in file order, and the handle stops after the first row with
\* another key, or at the end of the file; a search for an absent id returns
\* the empty list and does not touch the file.
C8_ExactGroup ==
    [][(pc = "search" /\ ~query'.use_intern) =>
          LET g == GroupLines(query'.paper_id)
          IN IF g = {}
             THEN found' = ListV(<<>>) /\ opened' = opened
             ELSE /\ found' = ListV(Projected(query'.paper_id, query'.field_name, 1))
                  /\ opened'[Child] = IF Largest(g) = Len(ChildLines)
                                      THEN Len(ChildLines) ELSE Largest(g) + 1
      ]_vars

\* A search has returned the one-row group in the middle of a file of three
\* lines, and the handle stands after the row that follows the group.
C8_Witness ==
    /\ query # Unset /\ ~query.use_intern
    /\ found.t = "list" /\ Len(found.v) = 1
    /\ GroupLines(query.paper_id) = {2}
    /\ Len(ChildLines) = 3 /\ opened[Child] = 3

\* The outcome of the search of `query` without interning.
PlainOutcome ==
    LET start_offset == bin_search(index.keys, query.paper_id.v)
    IN IF start_offset = None THEN ListV(<<>>)
       ELSE ListV(gather(Rest(files[Child],
                              Seek(files[Child], index.offsets[start_offset.v + 1])),
                         ChildSchema, query.paper_id, query.field_name, FALSE,
                         <<>>, 0).res)

\* C19: a search with use_intern=True has the outcome of the same search
\* with use_intern=False: an equal list of values, and no raise.
C19_InternIsNoOp ==
    (query # Unset /\ query.use_intern) => found = PlainOutcome

\* C9: on an ascending sequence, bin_search returns an index of x when x occurs
\* in the sequence, and None when it does not (below the minimum, above the
\* maximum, between two values, empty sequence); never a nearest position.
C9_ExactMatch ==
    pos # Unset =>
        IF \E i \in 1..Len(s) : s[i] = x
        THEN pos.t = "int" /\ pos.v \in 0..(Len(s) - 1) /\ s[pos.v + 1] = x
        ELSE pos = None

\* bin_search has returned None for a value between two values of the sequence.
C9_Witness ==
    /\ pos = None
    /\ \E i, j \in 1..Len(s) : s[i] < x /\ x < s[j]

\* C12: when no threshold is supplied, by a call of gen_full_records without
\* the argument or by the `full` command without --field-of-study-threshold,
\* the run uses threshold 0.0: its loading phase ends as that of a run with 0.0
\* ends, having kept exactly the field associations with score > 0.0.
C12_DefaultThreshold ==
    (call.arg = Unset /\ (pc = "papers" \/ status = "raised")) =>
        LET r0 == score_rows(files["pfos"], FloatV(0), <<>>, 0)
        IN /\ threshold = FloatV(0)
           /\ papers_fields_of_study = r0.d
           /\ (status = "raised") = r0.raised

\* C13: no record is emitted until all six input files have been opened, and
\* when one of them is absent the run emits nothing and does not complete: it
\* has raised, or it has not yet reached the open that fails (the loading
\* phase, or the first resumption of the papers loop when Papers.txt is the
\* absent file).
C13_MissingIsFatal ==
    /\ out # <<>> => DOMAIN opened = Paths
    /\ missing # {} =>
          /\ out = <<>> /\ status # "done" /\ RowsRead = 0
          /\ \/ status = "raised"
             \/ status = "running" /\ pc = "load"
             \/ status = "running" /\ pc = "papers" /\ missing = {"papers"}

\* Papers.txt is the absent file: the five other files have been read to
\* their ends, with papers that would qualify, and the run has raised.
C13_Witness ==
    /\ missing = {"papers"} /\ status = "raised" /\ out = <<>>
    /\ DOMAIN opened = Paths \ {"papers"}
    /\ QualifyingKeys # <<>> /\ journals # <<>>

\* C14: the record emitted for a paper whose JournalId is null or is no key of
\* the journals dictionary has Journal None.
C14_JournalNone ==
    status = "done" =>
        \A i \in 1..Len(files["papers"]) :
            (PaperRow(i)["JournalId"] = None \/ PaperRow(i)["JournalId"] \notin DOMAIN journals)
                => \A k \in 1..Len(out) :
                       RecordKey(out[k]) = PaperKey(PaperRow(i)) => out[k].Journal = None

\* C18: a step of the papers loop, whether it emits the row or rejects it,
\* leaves the five lookup structures as they were (same keys, same values).
C18_MappingsFrozen ==
    [][(status = "running" /\ pc = "papers") => genVars' = genVars]_vars

-----------------------------------------------------------------------------
(* Properties of convert_row.                                              *)

Columns == {row_schema[j][1] : j \in 1..Len(row_schema)}
Column(i) == row_schema[i][1]

\* int(c), float(c) or str(c) returns for cell i of the line
Parses(i) ==
    /\ i <= Len(row_in)
    /\ \/ row_schema[i][2] = "str"
       \/ row_schema[i][2] = "int" /\ row_in[i] \in DOMAIN IntOf
       \/ row_schema[i][2] = "float" /\ row_in[i] \in DOMAIN FloatOf
Parsed(i) ==
    CASE row_schema[i][2] = "str" -> StrV(row_in[i])
      [] row_schema[i][2] = "int" -> IntV(IntOf[row_in[i]])
      [] row_schema[i][2] = "float" -> FloatV(FloatOf[row_in[i]])

-----------------------------------------------------------------------------
(* Properties of JsonlDataset.                                             *)

DsFileIds == {json_loads(jsonl[i]).PaperId.v : i \in 1..Len(jsonl)}

\* C15: open() and __enter__ leave the dataset open, close() and __exit__
\* leave it closed; a lookup raises RuntimeError exactly when the dataset is
\* closed, whatever the id; on an open dataset a lookup of an id that is not
\* in the file raises KeyError; a lookup that raises leaves the handle and the
\* offset index as they were.
C15_LookupErrors ==
    [][/\ op' \in {"open", "enter"} => file' # None
       /\ op' \in {"close", "exit"} => file' = None
       /\ op' = "getitem" =>
             /\ (got'.out = Raised("RuntimeError")) <=> (file = None)
             /\ (file # None /\ got'.id \notin DsFileIds) => got'.out = Raised("KeyError")
             /\ got'.out.t = "raise" =>
                    /\ file' = file
                    /\ _id_2_line_offsets' = _id_2_line_offsets
      ]_vars

\* A lookup of an unknown id has raised KeyError on an open dataset whose
\* handle stands behind a line that an earlier lookup read.
C15_Witness ==
    /\ op = "getitem" /\ got.out = Raised("KeyError")
    /\ file # None /\ file.v > 0 /\ Len(jsonl) >= 2

LastLine(mag_id) ==
    CHOOSE i \in 1..Len(jsonl) :
        /\ json_loads(jsonl[i]).PaperId.v = mag_id
        /\ \A j \in (i + 1)..Len(jsonl) : json_loads(jsonl[j]).PaperId.v # mag_id

\* C16: on an open dataset, dataset[id] for an id that occurs in the file
\* returns the record of the line with that PaperId (of the last such line,
\* should several lines have it), wherever the handle stood before, and
\* leaves the handle behind that line.
C16_RoundTrip ==
    [][(op' = "getitem" /\ file # None /\ got'.id \in DsFileIds) =>
          /\ got'.out = DictV(json_loads(jsonl[LastLine(got'.id)]))
          /\ got'.out.v.PaperId = IntV(got'.id)
          /\ file' = IntV(Tell(jsonl, LastLine(got'.id)))
      ]_vars

\* A lookup has returned the record of the last of three lines with
\* different ids, the two lines before it being of different lengths.
C16_Witness ==
    /\ op = "getitem" /\ got.out.t = "dict" /\ Len(jsonl) = 3
    /\ Cardinality(DsFileIds) = 3 /\ JsonLen(jsonl[1]) # JsonLen(jsonl[2])
    /\ got.out = DictV(json_loads(jsonl[3])) /\ file = IntV(Tell(jsonl, 3))

-----------------------------------------------------------------------------
(* Properties of the handle pool.                                          *)

OpenHandles == {i \in 1..Len(handles) : ~handles[i].closed}
Pooled == {fileobj[p] : p \in DOMAIN fileobj}

\* C17: whatever row generators have been called, each path has been opened
\* at most once and has at most one open handle, the open handles are exactly
\* the values of _opened_files (each under its own path), and after __exit__,
\* at the normal end or with an exception, every handle that was opened is
\* closed and _opened_files is empty.
C17_HandlePool ==
    /\ \A p \in Paths : Cardinality({i \in 1..Len(handles) : handles[i].path = p}) <= 1
    /\ OpenHandles = Pooled
    /\ DOMAIN fileobj = DOMAIN opened
    /\ \A p \in DOMAIN fileobj : handles[fileobj[p]].path = p
    /\ pc = "exited" =>
          /\ OpenHandles = {} /\ fileobj = <<>> /\ opened = <<>>

\* The block was left with an exception (the sixth file is absent) after the
\* five other files had been opened, and __exit__ has closed all five.
C17_Witness ==
    /\ pc = "exited" /\ status = "raised"
    /\ Len(handles) = 5 /\ \A i \in 1..5 : handles[i].closed

====
